---- MODULE Spec2Model ----
(***************************************************************************)
(* knxmap: the bus/group monitor session (knxmap/bus/monitor.py,           *)
(* class KnxBusMonitor) and the command-line entry point (knxmap.py,       *)
(* main).  One monitor session is modelled as the asyncio datagram         *)
(* protocol it is: connection_made, datagram_received and the keepalive    *)
(* callback scheduled with loop.call_later are the actions; the frames it  *)
(* sends, the records it prints and the errors it logs are kept as logs.   *)
(***************************************************************************)
EXTENDS Integers, Sequences, FiniteSets, TLC

VARIABLES
    group_monitor,          \* KnxBusMonitor.group_monitor (constructor argument)
    transport,              \* "none" before connection_made, then "open", "closed" after transport.close()
    tunnel_established,     \* KnxTunnelConnection.tunnel_established
    communication_channel,  \* KnxTunnelConnection.communication_channel
    future,                 \* the completion future: "pending" or "done" (set_result called)
    timers,                 \* number of pending loop.call_later(50, self.knx_keep_alive) callbacks
    sent,                   \* frames handed to transport.sendto, in order
    records,                \* monitor records printed by print_message (LOGGER.info), in order
    errors,                 \* texts logged with LOGGER.error, in order
    data,                   \* the datagram last handed to datagram_received
    exc,                    \* the exception the last callback raised, "none" if it returned
    budget,                 \* datagrams the environment may still deliver
    args,                   \* the parsed command line of main
    main_pc,                \* where main is: "start", "run_until_complete", "run_forever", "exited"
    interrupted,            \* main caught a KeyboardInterrupt
    exit_code               \* <<>> while main runs, then <<status>> of the process

session_vars == <<group_monitor, transport, tunnel_established, communication_channel,
                  future, timers, sent, records, errors, data, exc, budget>>

main_vars == <<args, main_pc, interrupted, exit_code>>

vars == <<session_vars, main_vars>>

----------------------------------------------------------------------------
(* Bounds of the model *)

\* number of datagrams delivered to one session
MaxDatagrams == 3

\* number of datagrams delivered to the session while main is followed
MainDatagrams == 2

----------------------------------------------------------------------------
(* Frames *)

\* communication_channel before any CONNECT_RESPONSE (None)
NoChannel == -1

\* CONNECT_RESPONSE status E_CONNECTION_OPTION
E_CONNECTION_OPTION == 35

\* channel ids a gateway may assign / a frame may carry
Channels == {1, 2}

\* sequence counters carried by tunnelling frames (8 bit)
Seqs == {0, 1, 255}

\* CONNECT_RESPONSE / CONNECTIONSTATE_RESPONSE status codes: NO_ERROR,
\* E_CONNECTION_ID (0x21), E_CONNECTION_OPTION (0x23), E_NO_MORE_CONNECTIONS (0x24)
ConnectStatus == {0, E_CONNECTION_OPTION, 36}
StateStatus == {0, 33}

\* cEMI message codes, by the name CEMI_PRIMITIVES gives them
MessageCodes == {"L_Data.req", "L_Data.con", "L_Data.ind", "L_Busmon.ind"}

\* message.cemi of a tunnelling frame: present is FALSE when message.cemi is
\* falsy; tpci / apci say whether cemi.tpci / cemi.apci are set;
\* knx_destination is the 16 bit destination address (0 is falsy)
Cemi(present, code, dst, tpci, apci) ==
    [present |-> present, message_code |-> code, knx_destination |-> dst,
     tpci |-> tpci, apci |-> apci]

NoCemi == Cemi(FALSE, "none", 0, FALSE, FALSE)

\* complete frames, one per message code
FullCemi == {Cemi(TRUE, c, 4353, TRUE, TRUE) : c \in MessageCodes}

\* frames on which print_message takes its other branches
PartialCemi == {NoCemi,
                Cemi(TRUE, "L_Data.ind", 0, TRUE, TRUE),
                Cemi(TRUE, "L_Data.ind", 4353, TRUE, FALSE)}

\* a parsed KNXnet/IP frame (inbound) or a frame built for sending (outbound)
Frame(type, chan, seq, status, cemi) ==
    [type |-> type, communication_channel |-> chan, sequence_counter |-> seq,
     status |-> status, cemi |-> cemi, layer_type |-> "none"]

\* KnxConnectRequest(sockname, layer_type): TUNNEL_LINKLAYER is the default layer
KnxConnectRequest(layer_type) ==
    [Frame("CONNECT_REQUEST", 0, 0, 0, Cemi(FALSE, "none", 0, FALSE, FALSE))
        EXCEPT !.layer_type = layer_type]

NoData == Frame("none", NoChannel, 0, 0, NoCemi)

\* parse_message(data) returned nothing
InvalidMessages == {Frame("INVALID", NoChannel, 0, 0, NoCemi)}

ConnectResponses ==
    {Frame("CONNECT_RESPONSE", c, 0, 0, NoCemi) : c \in Channels}
    \cup {Frame("CONNECT_RESPONSE", 0, 0, s, NoCemi) : s \in ConnectStatus \ {0}}

\* the data frame of a monitor: an L_Data.ind to a group address
DataInd == Cemi(TRUE, "L_Data.ind", 4353, TRUE, TRUE)

TunnellingRequests ==
    {Frame("TUNNELLING_REQUEST", 1, s, 0, DataInd) : s \in Seqs}
    \cup {Frame("TUNNELLING_REQUEST", 1, 0, 0, f) : f \in FullCemi \cup PartialCemi}
    \cup {Frame("TUNNELLING_REQUEST", 2, 0, 0, DataInd)}

TunnellingAcks == {Frame("TUNNELLING_ACK", 1, 0, 0, NoCemi)}

ConnectionStateResponses ==
    {Frame("CONNECTIONSTATE_RESPONSE", 1, 0, s, NoCemi) : s \in StateStatus}

DisconnectRequests == {Frame("DISCONNECT_REQUEST", 1, 0, 0, NoCemi)}

DisconnectResponses == {Frame("DISCONNECT_RESPONSE", 1, 0, 0, NoCemi)}

\* a frame parse_message decodes and datagram_received has no branch for
OtherMessages == {Frame("DESCRIPTION_RESPONSE", 0, 0, 0, NoCemi)}

Datagrams ==
    InvalidMessages \cup ConnectResponses \cup TunnellingRequests
    \cup TunnellingAcks \cup ConnectionStateResponses \cup DisconnectRequests
    \cup DisconnectResponses \cup OtherMessages

----------------------------------------------------------------------------
(* Helpers of the session *)

\* transport.sendto(frame): a closed transport sends nothing
sendto(log, frame) == IF transport = "open" THEN Append(log, frame) ELSE log

\* KnxTunnelConnection.knx_tunnel_disconnect: send a DISCONNECT_REQUEST
knx_tunnel_disconnect(log) ==
    sendto(log, Frame("DISCONNECT_REQUEST", communication_channel, 0, 0, NoCemi))

\* print_message(message): the exception it raises, "none" when it prints
print_message_raises(message) ==
    IF message.type # "TUNNELLING_REQUEST" THEN "AssertionError"
    ELSE IF ~message.cemi.present THEN "AttributeError"
    ELSE IF group_monitor /\ message.cemi.knx_destination = 0 THEN "UnboundLocalError"
    ELSE IF group_monitor /\ ~(message.cemi.tpci /\ message.cemi.apci) THEN "AttributeError"
    ELSE "none"

\* the record print_message logs
print_message_record(message) ==
    [chan_id |-> message.communication_channel,
     seq_no |-> message.sequence_counter,
     msg_code |-> message.cemi.message_code,
     group |-> group_monitor]

----------------------------------------------------------------------------
(* The session *)

\* the event loop runs callbacks while main is inside loop.run_until_complete
\* or loop.run_forever
loop_running == main_pc \in {"run_until_complete", "run_forever"}

\* KnxBusMonitor.__init__ on top of KnxTunnelConnection.__init__
SessionInit ==
    /\ group_monitor \in BOOLEAN
    /\ transport = "none"
    /\ tunnel_established = FALSE
    /\ communication_channel = NoChannel
    /\ future = "pending"
    /\ timers = 0
    /\ sent = <<>>
    /\ records = <<>>
    /\ errors = <<>>
    /\ data = NoData
    /\ exc = "none"

\* connection_made, had it left the layer of the CONNECT_REQUEST at its default
connection_made_default_layer ==
    /\ main_pc = "run_until_complete"
    /\ transport = "none"
    /\ transport' = "open"
    /\ sent' = Append(sent, KnxConnectRequest("TUNNEL_LINKLAYER"))
    /\ timers' = timers + 1
    /\ exc' = "none"
    /\ UNCHANGED <<group_monitor, tunnel_established, communication_channel,
                   future, records, errors, data, budget>>
    /\ UNCHANGED main_vars

\* KnxBusMonitor.connection_made, called when the scan task has created the
\* datagram endpoint
connection_made ==
    /\ main_pc = "run_until_complete"
    /\ transport = "none"
    /\ transport' = "open"
    /\ sent' = Append(sent, KnxConnectRequest(IF group_monitor THEN "TUNNEL_LINKLAYER"
                                                               ELSE "TUNNEL_BUSMONITOR"))
    /\ timers' = timers + 1
    /\ exc' = "none"
    /\ UNCHANGED <<group_monitor, tunnel_established, communication_channel,
                   future, records, errors, data, budget>>
    /\ UNCHANGED main_vars

\* future.set_result(None) raises InvalidStateError on a future that is
\* already done or cancelled, and leaves it as it is
set_result_raises == future # "pending"

set_result == IF future = "pending" THEN "done" ELSE future

\* on_invalid_message, had it logged the undecodable datagram and dropped it
on_invalid_message_dropped(message) ==
    /\ errors' = Append(errors, "Invalid KNX message")
    /\ exc' = "none"
    /\ UNCHANGED <<transport, future, sent, tunnel_established,
                   communication_channel, timers, records>>

\* lines 37-42: parse_message returned nothing
on_invalid_message(message) ==
    /\ errors' = Append(errors, "Invalid KNX message")
    /\ sent' = knx_tunnel_disconnect(sent)
    /\ transport' = "closed"
    /\ future' = set_result
    /\ exc' = IF set_result_raises THEN "InvalidStateError" ELSE "none"
    /\ UNCHANGED <<tunnel_established, communication_channel, timers, records>>

\* connect_error_text, had it not looked at the layer the session asked for
connect_error_text_any_layer(message) ==
    IF message.status = E_CONNECTION_OPTION
    THEN "Device does not support BUSMONITOR, try --group-monitor instead"
    ELSE "Connection setup error"

\* the text logged for a CONNECT_RESPONSE that carries an error (lines 51-54)
connect_error_text(message) ==
    IF ~group_monitor /\ message.status = E_CONNECTION_OPTION
    THEN "Device does not support BUSMONITOR, try --group-monitor instead"
    ELSE "Connection setup error"

\* the channel stored after a CONNECT_RESPONSE without error (lines 47-49)
connect_channel(message) == message.communication_channel

\* lines 45-56: CONNECT_RESPONSE
on_connect_response(message) ==
    IF message.status = 0
    THEN /\ tunnel_established' = TRUE
         /\ communication_channel' = connect_channel(message)
         /\ exc' = "none"
         /\ UNCHANGED <<transport, future, timers, sent, records, errors>>
    ELSE /\ errors' = Append(errors, connect_error_text(message))
         /\ transport' = "closed"
         /\ future' = set_result
         /\ exc' = IF set_result_raises THEN "InvalidStateError" ELSE "none"
         /\ UNCHANGED <<tunnel_established, communication_channel, timers, sent, records>>

\* the condition of lines 59-61: the message codes that are acknowledged
is_acked(message) ==
    message.cemi.message_code \in {"L_Data.con", "L_Data.ind", "L_Busmon.ind"}

\* KnxTunnellingAck(communication_channel, sequence_count) of lines 62-64
tunnelling_ack(message) ==
    Frame("TUNNELLING_ACK", message.communication_channel,
          message.sequence_counter, 0, NoCemi)

\* lines 57-66: TUNNELLING_REQUEST.  An exception raised by print_message
\* leaves the handler before the acknowledgement is built.
on_tunnelling_request(message) ==
    /\ IF print_message_raises(message) # "none"
       THEN /\ exc' = print_message_raises(message)
            /\ UNCHANGED <<records, sent>>
       ELSE /\ exc' = "none"
            /\ records' = Append(records, print_message_record(message))
            /\ sent' = IF is_acked(message)
                       THEN sendto(sent, tunnelling_ack(message)) ELSE sent
    /\ UNCHANGED <<transport, tunnel_established, communication_channel,
                   future, timers, errors>>

\* lines 67-68: TUNNELLING_ACK
on_tunnelling_ack(message) ==
    /\ IF print_message_raises(message) # "none"
       THEN /\ exc' = print_message_raises(message)
            /\ records' = records
       ELSE /\ exc' = "none"
            /\ records' = Append(records, print_message_record(message))
    /\ UNCHANGED <<transport, tunnel_established, communication_channel,
                   future, timers, sent, errors>>

\* lines 69-71: CONNECTIONSTATE_RESPONSE
on_connectionstate_response(message) ==
    /\ timers' = timers + 1
    /\ exc' = "none"
    /\ UNCHANGED <<transport, tunnel_established, communication_channel,
                   future, sent, records, errors>>

\* on_disconnect_request, had it answered with the channel of the request
on_disconnect_request_echo(message) ==
    /\ sent' = sendto(sent, Frame("DISCONNECT_RESPONSE", message.communication_channel,
                                  0, 0, NoCemi))
    /\ transport' = "closed"
    /\ future' = set_result
    /\ exc' = IF set_result_raises THEN "InvalidStateError" ELSE "none"
    /\ UNCHANGED <<tunnel_established, communication_channel, timers, records, errors>>

\* lines 72-76: DISCONNECT_REQUEST
on_disconnect_request(message) ==
    /\ sent' = sendto(sent, Frame("DISCONNECT_RESPONSE", communication_channel,
                                  0, 0, NoCemi))
    /\ transport' = "closed"
    /\ future' = set_result
    /\ exc' = IF set_result_raises THEN "InvalidStateError" ELSE "none"
    /\ UNCHANGED <<tunnel_established, communication_channel, timers, records, errors>>

\* on_disconnect_response, had it closed the transport without resolving the
\* future
on_disconnect_response_unresolved(message) ==
    /\ transport' = "closed"
    /\ exc' = "none"
    /\ UNCHANGED <<tunnel_established, communication_channel, timers, sent,
                   records, errors, future>>

\* lines 77-79: DISCONNECT_RESPONSE
on_disconnect_response(message) ==
    /\ transport' = "closed"
    /\ future' = set_result
    /\ exc' = IF set_result_raises THEN "InvalidStateError" ELSE "none"
    /\ UNCHANGED <<tunnel_established, communication_channel, timers, sent,
                   records, errors>>

\* a parsed frame no branch of the isinstance chain matches
on_other_message(message) ==
    /\ exc' = "none"
    /\ UNCHANGED <<transport, tunnel_established, communication_channel,
                   future, timers, sent, records, errors>>

\* KnxBusMonitor.datagram_received.  The event loop hands datagrams to the
\* protocol between connection_made and transport.close().
datagram_received(message) ==
    /\ loop_running
    /\ transport = "open"
    /\ budget > 0
    /\ budget' = budget - 1
    /\ data' = message
    /\ group_monitor' = group_monitor
    /\ CASE message.type = "INVALID" -> on_invalid_message(message)
         [] message.type = "CONNECT_RESPONSE" -> on_connect_response(message)
         [] message.type = "TUNNELLING_REQUEST" -> on_tunnelling_request(message)
         [] message.type = "TUNNELLING_ACK" -> on_tunnelling_ack(message)
         [] message.type = "CONNECTIONSTATE_RESPONSE" -> on_connectionstate_response(message)
         [] message.type = "DISCONNECT_REQUEST" -> on_disconnect_request(message)
         [] message.type = "DISCONNECT_RESPONSE" -> on_disconnect_response(message)
         [] OTHER -> on_other_message(message)
    /\ UNCHANGED main_vars

\* KnxTunnelConnection.knx_keep_alive, run by a pending call_later callback:
\* send a CONNECTIONSTATE_REQUEST for the session's channel
knx_keep_alive ==
    /\ loop_running
    /\ timers > 0
    /\ timers' = timers - 1
    /\ sent' = sendto(sent, Frame("CONNECTIONSTATE_REQUEST", communication_channel,
                                  0, 0, NoCemi))
    /\ exc' = "none"
    /\ UNCHANGED <<group_monitor, transport, tunnel_established,
                   communication_channel, future, records, errors, data, budget>>
    /\ UNCHANGED main_vars

----------------------------------------------------------------------------
(* main *)

\* the command lines: targets given, --search, -i given, effective uid 0
Args == [targets : BOOLEAN, search_mode : BOOLEAN, iface : BOOLEAN, root : BOOLEAN]

\* early_exit, had the privilege check exited with a status of its own
early_exit_privileges_2(a) ==
    IF ~a.targets /\ ~a.search_mode THEN <<1>>
    ELSE IF a.search_mode /\ ~a.iface THEN <<1>>
    ELSE IF a.search_mode /\ ~a.root THEN <<2>>
    ELSE <<>>

\* lines 98-116: the status main exits with before scanning, <<>> when it goes on
early_exit(a) ==
    IF ~a.targets /\ ~a.search_mode THEN <<1>>
    ELSE IF a.search_mode /\ ~a.iface THEN <<1>>
    ELSE IF a.search_mode /\ ~a.root THEN <<1>>
    ELSE <<>>

\* lines 96-132: parse the arguments, exit on a usage or privilege error,
\* otherwise build the scanner and enter loop.run_until_complete
main_start ==
    /\ main_pc = "start"
    /\ exit_code' = early_exit(args)
    /\ main_pc' = IF early_exit(args) = <<>> THEN "run_until_complete" ELSE "exited"
    /\ UNCHANGED <<args, interrupted>>
    /\ UNCHANGED session_vars

\* lines 132-143, 153-154: scanner.scan returns once the session's future is
\* done; loop.close() and main returns
main_scan_done ==
    /\ main_pc = "run_until_complete"
    /\ future = "done"
    /\ main_pc' = "exited"
    /\ exit_code' = <<0>>
    /\ UNCHANGED <<args, interrupted>>
    /\ UNCHANGED session_vars

\* lines 144-147: KeyboardInterrupt inside run_until_complete: every task is
\* cancelled, which cancels the future the scan awaits, and the loop is run again
main_keyboard_interrupt ==
    /\ main_pc = "run_until_complete"
    /\ main_pc' = "run_forever"
    /\ interrupted' = TRUE
    /\ future' = IF future = "pending" THEN "cancelled" ELSE future
    /\ UNCHANGED <<args, exit_code>>
    /\ UNCHANGED <<group_monitor, transport, tunnel_established, communication_channel,
                   timers, sent, records, errors, data, exc, budget>>

\* scanner.bus_protocols holds the session once its endpoint was created
in_bus_protocols == transport # "none"

\* lines 149-154: run_forever has returned: knx_tunnel_disconnect for every
\* protocol of scanner.bus_protocols, loop.close(), main returns
main_disconnect ==
    /\ main_pc = "run_forever"
    /\ sent' = IF in_bus_protocols THEN knx_tunnel_disconnect(sent) ELSE sent
    /\ main_pc' = "exited"
    /\ exit_code' = <<0>>
    /\ UNCHANGED <<args, interrupted>>
    /\ UNCHANGED <<group_monitor, transport, tunnel_established, communication_channel,
                   future, timers, records, errors, data, exc, budget>>

----------------------------------------------------------------------------
(* Specifications *)

\* one monitor session under a running event loop
Init ==
    /\ SessionInit
    /\ budget = MaxDatagrams
    /\ args = [targets |-> TRUE, search_mode |-> FALSE, iface |-> FALSE, root |-> FALSE]
    /\ main_pc = "run_until_complete"
    /\ interrupted = FALSE
    /\ exit_code = <<>>

Next ==
    \/ connection_made
    \/ \E message \in Datagrams : datagram_received(message)
    \/ knx_keep_alive

Spec == Init /\ [][Next]_vars

\* the event loop runs every callback it has scheduled; nothing obliges the
\* gateway to send a datagram
FairSpec == Spec /\ WF_vars(connection_made) /\ WF_vars(knx_keep_alive)

\* the program from main on
MainInit ==
    /\ SessionInit
    /\ budget = MainDatagrams
    /\ args \in Args
    /\ main_pc = "start"
    /\ interrupted = FALSE
    /\ exit_code = <<>>

MainNext ==
    \/ main_start
    \/ connection_made
    \/ \E message \in Datagrams : datagram_received(message)
    \/ knx_keep_alive
    \/ main_scan_done
    \/ main_keyboard_interrupt
    \/ main_disconnect

MainSpec == MainInit /\ [][MainNext]_vars

----------------------------------------------------------------------------
(* Vocabulary of the properties *)

\* the step is a call of datagram_received
Received == budget' = budget - 1

\* the session states of the tunnelling state machine, read off the fields
Connecting == transport = "open" /\ ~tunnel_established
Active == transport = "open" /\ tunnel_established

\* the sequence number the session expects next: one past the request it
\* delivered last, 0 before any
recv_seq ==
    IF records = <<>> THEN 0
    ELSE (records[Len(records)].seq_no + 1) % 256

\* recv_seq - 1 modulo 256
prev_seq == (recv_seq + 255) % 256

HasSent(type) == \E i \in 1..Len(sent) : sent[i].type = type

----------------------------------------------------------------------------
(* Properties *)

\* the frames a gateway hands to a monitor as data
IsIndication(message) ==
    message.cemi.present /\ message.cemi.message_code \in {"L_Data.ind", "L_Busmon.ind"}

\* C1: in an Active session, a duplicate TUNNELLING_REQUEST (an indication
\* whose sequence is that of the request delivered just before, recv_seq - 1)
\* emits no monitor record.
C1_DuplicateNotRedelivered ==
    [][(Received /\ Active /\ records # <<>>
        /\ data'.type = "TUNNELLING_REQUEST" /\ IsIndication(data')
        /\ data'.sequence_counter = prev_seq)
       => records' = records]_vars

\* C2: every TUNNELLING_REQUEST with a complete cEMI frame that an Active
\* session receives with a sequence in {recv_seq, recv_seq - 1}, whatever its
\* message code and in both modes, is answered by exactly one TUNNELLING_ACK
\* that carries the same sequence.
C2_ExactlyOneAck ==
    [][(Received /\ Active
        /\ data'.type = "TUNNELLING_REQUEST"
        /\ data'.cemi \in FullCemi
        /\ data'.sequence_counter \in {recv_seq, prev_seq})
       => /\ Len(sent') = Len(sent) + 1
          /\ sent'[Len(sent')].type = "TUNNELLING_ACK"
          /\ sent'[Len(sent')].sequence_counter = data'.sequence_counter]_vars

\* C3: once the tunnel is established, communication_channel never changes
\* while the session is open.
C3_ChannelImmutable ==
    [][Active => communication_channel' = communication_channel]_vars

\* C4 (as claimed): after an undecodable datagram, fewer than 5 malformed
\* frames having been received, the session continues: transport open, future
\* pending, no DISCONNECT_REQUEST sent.
C4_MalformedDropped ==
    (data.type = "INVALID" /\ MaxDatagrams - budget < 5)
    => (transport = "open" /\ future = "pending" /\ ~HasSent("DISCONNECT_REQUEST"))

\* C4 (amended): an undecodable datagram ends the session at once: the error
\* is logged, a DISCONNECT_REQUEST is the last frame sent, the transport is
\* closed and the future is no longer pending.
C4_MalformedTearsDown ==
    data.type = "INVALID"
    => /\ transport = "closed"
       /\ future # "pending"
       /\ sent # <<>> /\ sent[Len(sent)].type = "DISCONNECT_REQUEST"
       /\ errors = <<"Invalid KNX message">>

\* C4 witness: an Active session was handed an undecodable datagram as the
\* first malformed frame and is closed.
C4_Witness ==
    /\ data.type = "INVALID"
    /\ tunnel_established
    /\ transport = "closed"

\* C5 (as claimed): a BUSMONITOR session that receives CONNECT_RESPONSE 0x23
\* logs exactly "device does not support bus monitor; try group monitor" and
\* is Failed.
C5_ClaimedText ==
    (data.type = "CONNECT_RESPONSE" /\ data.status = 35 /\ ~group_monitor)
    => /\ errors = <<"device does not support bus monitor; try group monitor">>
       /\ transport = "closed"
       /\ future = "done"

\* C5 (amended): a CONNECT_RESPONSE with an error status closes the transport,
\* leaves the future no longer pending and tunnel_established as it was; the error
\* logged is "Device does not support BUSMONITOR, try --group-monitor instead"
\* for a BUSMONITOR session and status 0x23, "Connection setup error"
\* otherwise.
C5_ConnectErrorFails ==
    [][(Received /\ data'.type = "CONNECT_RESPONSE" /\ data'.status # 0)
       => /\ transport' = "closed"
          /\ future' # "pending"
          /\ tunnel_established' = tunnel_established
          /\ errors' = Append(errors,
                IF ~group_monitor /\ data'.status = 35
                THEN "Device does not support BUSMONITOR, try --group-monitor instead"
                ELSE "Connection setup error")]_vars

\* C5 witness: a Connecting BUSMONITOR session received status 0x23 and failed.
C5_Witness ==
    /\ ~group_monitor
    /\ data.type = "CONNECT_RESPONSE" /\ data.status = 35
    /\ ~tunnel_established
    /\ transport = "closed"
    /\ errors = <<"Device does not support BUSMONITOR, try --group-monitor instead">>

\* C6: when main has ended after a KeyboardInterrupt, every session of
\* scanner.bus_protocols whose tunnel was established is Closed: its transport
\* is closed and its future is no longer pending.
C6_ClosedAfterCancellation ==
    (main_pc = "exited" /\ interrupted /\ in_bus_protocols /\ tunnel_established)
    => (transport = "closed" /\ future # "pending")

\* C7: in an Active session a CONNECTIONSTATE_RESPONSE with NO_ERROR re-arms
\* the keepalive; one with an error status does not re-arm it and starts the
\* disconnect (a DISCONNECT_REQUEST is sent).
C7_KeepaliveOutcome ==
    [][(Received /\ Active /\ data'.type = "CONNECTIONSTATE_RESPONSE")
       => IF data'.status = 0
          THEN timers' = timers + 1 /\ transport' = "open"
          ELSE /\ timers' = timers
               /\ sent' # sent
               /\ sent'[Len(sent')].type = "DISCONNECT_REQUEST"]_vars

\* C8 (as claimed): a usage error exits with 1, search mode without root
\* privileges exits with 2.
C8_ClaimedExitCodes ==
    main_pc = "exited"
    => /\ (~args.targets /\ ~args.search_mode) => exit_code = <<1>>
       /\ (args.search_mode /\ args.iface /\ ~args.root) => exit_code = <<2>>

\* C8 (amended): a usage error exits with 1 and search mode without root
\* privileges exits with 1 as well.
C8_ExitCodes ==
    main_pc = "exited"
    => /\ (~args.targets /\ ~args.search_mode) => exit_code = <<1>>
       /\ (args.search_mode /\ ~args.root) => exit_code = <<1>>

\* C8 witness: main has exited with 1 on search mode with an interface and
\* without root privileges.
C8_Witness ==
    /\ main_pc = "exited"
    /\ args.search_mode /\ args.iface /\ ~args.root
    /\ exit_code = <<1>>

\* C9: a session that is Connecting and to which the gateway sends nothing
\* eventually leaves Connecting (the connect timeout fails it).
C9_LeavesConnecting ==
    (Connecting /\ data = NoData) ~> (~Connecting \/ data # NoData)

\* C10: a TUNNELLING_REQUEST (an indication) whose sequence is neither
\* recv_seq nor recv_seq - 1 changes nothing: no ack, no record, the session
\* as it was.
C10_OutOfWindowDropped ==
    [][(Received /\ Active
        /\ data'.type = "TUNNELLING_REQUEST" /\ IsIndication(data')
        /\ data'.sequence_counter \notin {recv_seq, prev_seq})
       => UNCHANGED <<sent, records, transport, tunnel_established,
                      communication_channel, future, timers>>]_vars

\* C11: a TUNNELLING_REQUEST (an indication) whose communication_channel is
\* not the channel of the Active session is not processed as data (no monitor
\* record, no frame sent that carries the foreign channel) and tears the
\* session down.
C11_ForeignChannelRejected ==
    [][(Received /\ Active
        /\ data'.type = "TUNNELLING_REQUEST" /\ IsIndication(data')
        /\ data'.communication_channel # communication_channel)
       => /\ records' = records
          /\ \A i \in 1..Len(sent') :
                i > Len(sent) => sent'[i].communication_channel = communication_channel
          /\ transport' = "closed"]_vars

\* C12: a TUNNELLING_ACK handed to an open session is ignored: nothing is
\* sent, printed or logged, the session is as it was, and the handler raises
\* nothing (the assertion of print_message holds).
C12_AckIgnored ==
    [][(Received /\ data'.type = "TUNNELLING_ACK")
       => /\ UNCHANGED <<sent, records, errors, transport, tunnel_established,
                         communication_channel, future, timers>>
          /\ exc' = "none"]_vars

\* C13: on a DISCONNECT_REQUEST an Active session sends exactly one frame, a
\* DISCONNECT_RESPONSE carrying the session's communication_channel, closes
\* the transport and leaves the future no longer pending; a session whose
\* transport is closed sends no further frame.
C13_DisconnectRequestCloses ==
    [][/\ (Received /\ Active /\ data'.type = "DISCONNECT_REQUEST")
          => /\ Len(sent') = Len(sent) + 1
             /\ SubSeq(sent', 1, Len(sent)) = sent
             /\ sent'[Len(sent')].type = "DISCONNECT_RESPONSE"
             /\ sent'[Len(sent')].communication_channel = communication_channel
             /\ transport' = "closed"
             /\ future' # "pending"
       /\ (transport = "closed" => sent' = sent)]_vars

\* C13 witness: an Active session answered a DISCONNECT_REQUEST and closed,
\* and the keepalive callback ran afterwards without sending anything (the
\* CONNECT_REQUEST and the DISCONNECT_RESPONSE are all that was sent).
C13_Witness ==
    /\ data.type = "DISCONNECT_REQUEST"
    /\ tunnel_established
    /\ transport = "closed"
    /\ future = "done"
    /\ timers = 0
    /\ Len(sent) = 2
    /\ sent[2].type = "DISCONNECT_RESPONSE"
    /\ sent[2].communication_channel = communication_channel

\* C14: the keepalive is confined to the Active state: a keepalive callback
\* is scheduled for a session that has none only by a CONNECT_RESPONSE
\* without error, and a keepalive callback runs only while the session is
\* Active.
C14_KeepaliveOnlyActive ==
    [][/\ (timers = 0 /\ timers' > 0)
          => (Received /\ data'.type = "CONNECT_RESPONSE" /\ data'.status = 0)
       /\ (timers' < timers) => Active]_vars

\* C15: a TUNNELLING_REQUEST with a complete L_Data.con or L_Data.ind frame
\* is acknowledged, and one with an L_Data.con frame emits no monitor record.
C15_ConNotDelivered ==
    [][(Received /\ Active /\ data'.type = "TUNNELLING_REQUEST"
        /\ data'.cemi \in FullCemi
        /\ data'.cemi.message_code \in {"L_Data.con", "L_Data.ind"})
       => /\ Len(sent') = Len(sent) + 1
          /\ sent'[Len(sent')].type = "TUNNELLING_ACK"
          /\ (data'.cemi.message_code = "L_Data.con" => records' = records)]_vars

\* C16: on start the session sends exactly one CONNECT_REQUEST, with layer
\* BUSMONITOR in bus-monitor mode (group_monitor = FALSE) and LINKLAYER in
\* group-monitor mode, and is then Connecting with no tunnel established;
\* no other CONNECT_REQUEST is ever sent.
C16_ConnectRequestOnStart ==
    /\ [][(transport = "none" /\ transport' = "open")
          => /\ sent = <<>> /\ Len(sent') = 1
             /\ sent'[1].type = "CONNECT_REQUEST"
             /\ sent'[1].layer_type = IF group_monitor THEN "TUNNEL_LINKLAYER"
                                                       ELSE "TUNNEL_BUSMONITOR"
             /\ Connecting']_vars
    /\ [](transport = "none" => sent = <<>>)
    /\ [](\A i \in 1..Len(sent) : sent[i].type = "CONNECT_REQUEST" => i = 1)

C16_Witness ==
    /\ ~group_monitor /\ Connecting /\ data = NoData
    /\ Len(sent) = 1 /\ sent[1].type = "CONNECT_REQUEST"
    /\ sent[1].layer_type = "TUNNEL_BUSMONITOR"

C18_OneKeepaliveTimer == timers <= 1

\* C19: a DISCONNECT_RESPONSE received by a session that has sent no
\* DISCONNECT_REQUEST leaves the transport open and the future unresolved.
C19_UnsolicitedResponseIgnored ==
    [][(Received /\ data'.type = "DISCONNECT_RESPONSE"
        /\ ~HasSent("DISCONNECT_REQUEST"))
       => (transport' = "open" /\ future' = "pending")]_vars

====
